---------------------------- MODULE Spec2Model ----------------------------
(***************************************************************************)
(* A model of example_app.py: the products/users REST endpoints over a     *)
(* SQLite database, the session-per-request dependency get_db, and the     *)
(* sample-data seeding of the __main__ block.                              *)
(*                                                                         *)
(* Tables are sequences of rows in rowid order (the order in which SQLite  *)
(* scans a table for a query with no ORDER BY).  An optional value is a    *)
(* set with at most one element: {} is None / NULL.  Prices are in cents.  *)
(* The columns username and email of a user row hold optional values too:  *)
(* that they are never NULL is a constraint the database checks.           *)
(* Every handler is an "async def" without an await, so the event loop     *)
(* runs it to completion: one action per handler.  get_db runs around it:  *)
(* its part before the yield and its finally clause are steps of their     *)
(* own, which interleave between requests.                                 *)
(***************************************************************************)
EXTENDS Integers, Sequences, FiniteSets, TLC

VARIABLES
    products,   \* table "products": rows in rowid order
    users,      \* table "users": rows in rowid order
    server,     \* "stopped" | "running": the process of the __main__ block
    seeding,    \* outcome of the last run of the sample-data block
    pc,         \* per client connection: "idle" | "open" | "done"
    db,         \* per client connection: the session get_db yielded (0: none)
    req,        \* per client connection: the request its handler served
    resp,       \* per client connection: the response its handler produced
    sessions    \* the sessions that are open

vars == <<products, users, server, seeding, pc, db, req, resp, sessions>>

(***************************************************************************)
(* Bounds of the model.                                                    *)
(***************************************************************************)
MaxProductId == 6

MaxUserId == 4

NumClients == 2

\* Readings of datetime.utcnow.
Times == {1, 2}

\* The one connection of the sequential specification.
ApiClients == {1}

\* The connections of the concurrent specification.
ConcClients == 1 .. NumClients

\* Session objects: a fresh one always exists for every connection.
SessionIds == 1 .. (NumClients + 1)

(***************************************************************************)
(* Optional values.                                                        *)
(***************************************************************************)
None == {}

Some(v) == {v}

OrDefault(opt, d) == IF opt = None THEN d ELSE CHOOSE v \in opt : TRUE

Min(a, b) == IF a < b THEN a ELSE b

(***************************************************************************)
(* Request inputs.                                                         *)
(***************************************************************************)
\* Path parameters: the first row of the sample data and the last two ids.
ProductIdArgs == {1, MaxProductId - 1, MaxProductId}

UserIdArgs == {1, MaxUserId}

SkipArgs == {None, Some(-1), Some(1)}

LimitArgs == {None, Some(0), Some(2), Some(100), Some(101)}

ProductQueries ==
    [skip : SkipArgs, limit : LimitArgs, in_stock_only : {None}]
    \cup [skip : {None, Some(1)}, limit : {None, Some(2)},
          in_stock_only : {Some(TRUE)}]

UserQueries == [skip : SkipArgs, limit : LimitArgs]

\* JSON bodies of POST /products and PUT /products/{id}.
ProductBodies ==
    { [name |-> "Widget", description |-> None, price |-> 500,
       in_stock |-> None],
      [name |-> "Gadget", description |-> Some("Compact gadget"),
       price |-> 1250, in_stock |-> Some(FALSE)] }

\* JSON bodies of POST /users; the last one lacks the required email.
UserBodies ==
    [username : {Some("johndoe"), Some("alice")},
     email : {Some("john@example.com"), Some("alice@example.com")},
     full_name : {None}]
    \cup { [username |-> Some("alice"), email |-> Some("alice@example.com"),
             full_name |-> Some("Alice Liddell")],
           [username |-> Some("alice"), email |-> None, full_name |-> None] }

(***************************************************************************)
(* The schema and the pydantic models.                                     *)
(***************************************************************************)
\* Integer primary key of SQLite: the rowid, one more than the largest.
NextId(table) == IF table = <<>> THEN 1 ELSE table[Len(table)].id + 1

\* Mutant of ProductCreate: in_stock defaults to False.
ProductCreate_default_false(body) ==
    [name |-> body.name,
     description |-> body.description,
     price |-> body.price,
     in_stock |-> OrDefault(body.in_stock, FALSE)]

\* ProductCreate: description defaults to None, in_stock to True.
ProductCreate(body) ==
    [name |-> body.name,
     description |-> body.description,
     price |-> body.price,
     in_stock |-> OrDefault(body.in_stock, TRUE)]

\* UserCreate: username and email are required.
UserCreateValid(body) == body.username # None /\ body.email # None

UserCreate(body) ==
    [username |-> body.username,
     email |-> body.email,
     full_name |-> body.full_name]

\* A new Product / User row: the id column and the created_at default.
NewRow(obj, id, t) == obj @@ [id |-> id, created_at |-> t]

\* Mutant of UniqueViolation: the columns are not declared unique.
UniqueViolation_off(table, rows) == FALSE

\* users.username and users.email are unique: would adding `rows` break it?
\* (NULLs are never equal to each other under a UNIQUE constraint.)
UniqueViolation(table, rows) ==
    LET all == table \o rows
    IN  \E i, j \in 1 .. Len(all) :
            /\ i < j
            /\ j > Len(table)
            /\ \/ all[i].username # None /\ all[i].username = all[j].username
               \/ all[i].email # None /\ all[i].email = all[j].email

\* users.username and users.email are nullable=False.
NotNullViolation(rows) ==
    \E i \in 1 .. Len(rows) : rows[i].username = None \/ rows[i].email = None

\* The IntegrityError of a flush that adds `rows` to the users table.
IntegrityError(table, rows) ==
    NotNullViolation(rows) \/ UniqueViolation(table, rows)

(***************************************************************************)
(* Queries.                                                                *)
(***************************************************************************)
\* Query(0, ge=0)
Skip(query) == OrDefault(query.skip, 0)

SkipValid(query) == Skip(query) >= 0

\* Query(10, ge=1, le=100)
Limit(query) == OrDefault(query.limit, 10)

LimitValid(query) == Limit(query) >= 1 /\ Limit(query) <= 100

\* Mutant of offset_limit: the window is one row too long.
offset_limit_long(rows, skip, limit) ==
    SubSeq(rows, skip + 1, Min(skip + limit + 1, Len(rows)))

\* query.offset(skip).limit(limit).all()
offset_limit(rows, skip, limit) ==
    SubSeq(rows, skip + 1, Min(skip + limit, Len(rows)))

\* Product.in_stock is True: Python's identity test of the column attribute
\* against True, evaluated before any SQL is built.  The attribute is not the
\* object True, so filter() receives the constant False.
in_stock_is_True(row) == FALSE

\* Mutant of filter_id: the comparison slips to <=.
filter_id_le(rows, id) == SelectSeq(rows, LAMBDA r : r.id <= id)

\* query.filter(Model.id == id).first(): the rows that match, first one first.
filter_id(rows, id) == SelectSeq(rows, LAMBDA r : r.id = id)

\* Mutant of existing_user_filter: the email is not looked at.
existing_user_filter_username(u, user) == u.username = user.username

\* Mutant of existing_user_filter: both must match.
existing_user_filter_and(u, user) ==
    u.username = user.username /\ u.email = user.email

\* (User.username == user.username) | (User.email == user.email)
existing_user_filter(u, user) ==
    u.username = user.username \/ u.email = user.email

\* Mutant of delete_row: the rows after the deleted one go with it.
delete_row_ge(rows, row) == SelectSeq(rows, LAMBDA r : r.id < row.id)

\* db.delete(row); db.commit()
delete_row(rows, row) == SelectSeq(rows, LAMBDA r : r.id # row.id)

\* setattr(row, key, value) for every key of the body; db.commit()
update_row(rows, row, values) ==
    [i \in 1 .. Len(rows) |->
        IF rows[i].id = row.id
        THEN [rows[i] EXCEPT !.name = values.name,
                             !.description = values.description,
                             !.price = values.price,
                             !.in_stock = values.in_stock]
        ELSE rows[i]]

(***************************************************************************)
(* Sample data of the __main__ block.                                      *)
(***************************************************************************)
sample_products ==
    << [name |-> "Laptop", description |-> Some("High-performance laptop"),
        price |-> 99999, in_stock |-> TRUE],
       [name |-> "Mouse", description |-> Some("Wireless mouse"),
        price |-> 2999, in_stock |-> TRUE],
       [name |-> "Keyboard", description |-> Some("Mechanical keyboard"),
        price |-> 14999, in_stock |-> FALSE],
       [name |-> "Monitor", description |-> Some("4K display"),
        price |-> 49999, in_stock |-> TRUE],
       [name |-> "Headphones", description |-> Some("Noise-cancelling"),
        price |-> 19999, in_stock |-> TRUE] >>

sample_users ==
    << [username |-> Some("johndoe"), email |-> Some("john@example.com"),
        full_name |-> Some("John Doe")],
       [username |-> Some("janedoe"), email |-> Some("jane@example.com"),
        full_name |-> Some("Jane Doe")],
       [username |-> Some("admin"), email |-> Some("admin@example.com"),
        full_name |-> Some("Admin User")] >>

\* db.bulk_save_objects(objs): the rows the INSERTs add, ids in order.
bulk_save_objects(table, objs, t) ==
    [i \in 1 .. Len(objs) |-> NewRow(objs[i], NextId(table) + i - 1, t)]

(***************************************************************************)
(* The state after the module is imported: empty tables, no request.       *)
(***************************************************************************)
NoRequest == [op |-> "none"]

NoResponse == [status |-> 0]

InitFor(clients) ==
    /\ products = <<>>
    /\ users = <<>>
    /\ server = "stopped"
    /\ seeding = "not run"
    /\ pc = [c \in clients |-> "idle"]
    /\ db = [c \in clients |-> 0]
    /\ req = [c \in clients |-> NoRequest]
    /\ resp = [c \in clients |-> NoResponse]
    /\ sessions = {}

Init == InitFor(ApiClients)

(***************************************************************************)
(* python example_app.py: the sample-data block, then uvicorn.run.  The    *)
(* block runs in one transaction; an IntegrityError leaves the with block, *)
(* which rolls the transaction back, and ends the process.  The rows of    *)
(* one run are stamped within one reading of the clock.                    *)
(***************************************************************************)
main ==
    /\ server = "stopped"
    /\ \E t \in Times :
        IF Len(products) = 0
        THEN IF IntegrityError(users, sample_users)
             THEN /\ seeding' = "IntegrityError"
                  /\ UNCHANGED <<products, users, server>>
             ELSE /\ products' = products \o
                        bulk_save_objects(products, sample_products, t)
                  /\ users' = users \o
                        bulk_save_objects(users, sample_users, t)
                  /\ seeding' = "inserted"
                  /\ server' = "running"
        ELSE /\ seeding' = "skipped"
             /\ server' = "running"
             /\ UNCHANGED <<products, users>>
    /\ UNCHANGED <<pc, db, req, resp, sessions>>

\* The server is stopped; uvicorn first lets the requests in flight finish.
Shutdown ==
    /\ server = "running"
    /\ \A c \in DOMAIN pc : pc[c] = "idle"
    /\ server' = "stopped"
    /\ UNCHANGED <<products, users, seeding, pc, db, req, resp, sessions>>

(***************************************************************************)
(* get_db: a session of its own for the request, closed in the finally.    *)
(***************************************************************************)
\* SessionLocal(): a session object that no request holds.
SessionLocal(open) == CHOOSE s \in SessionIds \ open : TRUE

\* Mutant of close: the session stays open.
close_leak(open, s) == open

\* db.close()
close(open, s) == open \ {s}

get_db_enter(c) ==
    /\ server = "running"
    /\ pc[c] = "idle"
    /\ SessionIds \ sessions # {}
    /\ LET s == SessionLocal(sessions)
       IN  /\ db' = [db EXCEPT ![c] = s]
           /\ sessions' = sessions \cup {s}
    /\ pc' = [pc EXCEPT ![c] = "open"]
    /\ UNCHANGED <<products, users, server, seeding, req, resp>>

get_db_exit(c) ==
    /\ pc[c] = "done"
    /\ sessions' = close(sessions, db[c])
    /\ db' = [db EXCEPT ![c] = 0]
    /\ pc' = [pc EXCEPT ![c] = "idle"]
    /\ req' = [req EXCEPT ![c] = NoRequest]
    /\ resp' = [resp EXCEPT ![c] = NoResponse]
    /\ UNCHANGED <<products, users, server, seeding>>

(***************************************************************************)
(* The handlers.  Respond: the handler of connection c served `request`    *)
(* and produced `response`.                                                *)
(***************************************************************************)
Respond(c, request, response) ==
    /\ pc[c] = "open"
    /\ pc' = [pc EXCEPT ![c] = "done"]
    /\ req' = [req EXCEPT ![c] = request]
    /\ resp' = [resp EXCEPT ![c] = response]
    /\ UNCHANGED <<server, seeding, db, sessions>>

\* The 422 of a request whose parameters or body fail validation.
ValidationError == [status |-> 422, detail |-> "validation error"]

HTTPException(status_code, detail) ==
    [status |-> status_code, detail |-> detail]

list_products(c, query) ==
    LET filtered == IF OrDefault(query.in_stock_only, FALSE)
                    THEN SelectSeq(products, in_stock_is_True)
                    ELSE products
    IN  /\ Respond(c, [op |-> "list_products", query |-> query],
                IF SkipValid(query) /\ LimitValid(query)
                THEN [status |-> 200,
                      body |-> offset_limit(filtered, Skip(query),
                                            Limit(query))]
                ELSE ValidationError)
        /\ UNCHANGED <<products, users>>

get_product(c, product_id) ==
    LET found == filter_id(products, product_id)
    IN  /\ Respond(c, [op |-> "get_product", product_id |-> product_id],
                IF found = <<>>
                THEN HTTPException(404, "Product not found")
                ELSE [status |-> 200, body |-> <<found[1]>>])
        /\ UNCHANGED <<products, users>>

create_product(c, body) ==
    /\ NextId(products) <= MaxProductId
    /\ \E t \in Times :
        LET db_product == NewRow(ProductCreate(body), NextId(products), t)
        IN  /\ products' = Append(products, db_product)
            /\ Respond(c, [op |-> "create_product", product |-> body],
                    [status |-> 201, body |-> <<db_product>>])
    /\ UNCHANGED users

update_product(c, product_id, body) ==
    LET found == filter_id(products, product_id)
        request == [op |-> "update_product", product_id |-> product_id,
                    product |-> body]
    IN  /\ IF found = <<>>
           THEN /\ Respond(c, request,
                        HTTPException(404, "Product not found"))
                /\ UNCHANGED products
           ELSE LET updated == update_row(products, found[1],
                                          ProductCreate(body))
                IN  /\ products' = updated
                    /\ Respond(c, request,
                            [status |-> 200,
                             body |-> filter_id(updated, product_id)])
        /\ UNCHANGED users

delete_product(c, product_id) ==
    LET found == filter_id(products, product_id)
        request == [op |-> "delete_product", product_id |-> product_id]
    IN  /\ IF found = <<>>
           THEN /\ Respond(c, request,
                        HTTPException(404, "Product not found"))
                /\ UNCHANGED products
           ELSE /\ products' = delete_row(products, found[1])
                /\ Respond(c, request,
                        [status |-> 200, body |-> <<>>])
        /\ UNCHANGED users

list_users(c, query) ==
    /\ Respond(c, [op |-> "list_users", query |-> query],
            IF SkipValid(query) /\ LimitValid(query)
            THEN [status |-> 200,
                  body |-> offset_limit(users, Skip(query), Limit(query))]
            ELSE ValidationError)
    /\ UNCHANGED <<products, users>>

get_user(c, user_id) ==
    LET found == filter_id(users, user_id)
    IN  /\ Respond(c, [op |-> "get_user", user_id |-> user_id],
                IF found = <<>>
                THEN HTTPException(404, "User not found")
                ELSE [status |-> 200, body |-> <<found[1]>>])
        /\ UNCHANGED <<products, users>>

\* An IntegrityError of the commit is not caught: the response is a 500 and
\* the session is closed with the INSERT rolled back.
create_user(c, body) ==
    LET request == [op |-> "create_user", user |-> body]
        user == UserCreate(body)
        existing_user ==
            SelectSeq(users, LAMBDA u : existing_user_filter(u, user))
    IN  /\ IF ~UserCreateValid(body)
           THEN /\ Respond(c, request, ValidationError)
                /\ UNCHANGED users
           ELSE IF existing_user # <<>>
           THEN /\ Respond(c, request,
                        HTTPException(400,
                            "User with this username or email already exists"))
                /\ UNCHANGED users
           ELSE /\ NextId(users) <= MaxUserId
                /\ \E t \in Times :
                    LET db_user == NewRow(user, NextId(users), t)
                    IN  IF IntegrityError(users, <<db_user>>)
                        THEN /\ Respond(c, request,
                                    [status |-> 500,
                                     detail |-> "IntegrityError"])
                             /\ UNCHANGED users
                        ELSE /\ users' = Append(users, db_user)
                             /\ Respond(c, request,
                                    [status |-> 201, body |-> <<db_user>>])
        /\ UNCHANGED products

(***************************************************************************)
(* The sequential specification: one connection, every request input.      *)
(***************************************************************************)
Next ==
    \/ main
    \/ Shutdown
    \/ \E c \in ApiClients : get_db_enter(c)
    \/ \E c \in ApiClients : get_db_exit(c)
    \/ \E c \in ApiClients, q \in ProductQueries : list_products(c, q)
    \/ \E c \in ApiClients, id \in ProductIdArgs : get_product(c, id)
    \/ \E c \in ApiClients, b \in ProductBodies : create_product(c, b)
    \/ \E c \in ApiClients, id \in ProductIdArgs, b \in ProductBodies :
            update_product(c, id, b)
    \/ \E c \in ApiClients, id \in ProductIdArgs : delete_product(c, id)
    \/ \E c \in ApiClients, q \in UserQueries : list_users(c, q)
    \/ \E c \in ApiClients, id \in UserIdArgs : get_user(c, id)
    \/ \E c \in ApiClients, b \in UserBodies : create_user(c, b)

Spec == Init /\ [][Next]_vars

(***************************************************************************)
(* The restart specification: the server is started and stopped again and  *)
(* again while one connection deletes any product and creates products and *)
(* users.                                                                  *)
(***************************************************************************)
RestartProductBodies == {b \in ProductBodies : b.name = "Widget"}

RestartUserBodies == {b \in UserBodies : b.full_name = None}

RestartNext ==
    \/ main
    \/ Shutdown
    \/ \E c \in ApiClients : get_db_enter(c)
    \/ \E c \in ApiClients : get_db_exit(c)
    \/ \E c \in ApiClients, b \in RestartProductBodies : create_product(c, b)
    \/ \E c \in ApiClients, id \in 1 .. MaxProductId : delete_product(c, id)
    \/ \E c \in ApiClients, b \in RestartUserBodies : create_user(c, b)

RestartSpec == Init /\ [][RestartNext]_vars

(***************************************************************************)
(* The concurrent specification: NumClients connections, whose requests    *)
(* end in each kind of response.  The framework runs the handler of a      *)
(* request whose dependencies are solved, and then the rest of every       *)
(* generator dependency: weak fairness of both, per connection.            *)
(***************************************************************************)
ConcQueries == { [skip |-> None, limit |-> Some(0)] }

ConcBodies ==
    { [username |-> Some("alice"), email |-> Some("alice@example.com"),
       full_name |-> None] }

Handler(c) ==
    \/ \E id \in {1, MaxProductId} : get_product(c, id)
    \/ \E q \in ConcQueries : list_users(c, q)
    \/ \E b \in ConcBodies : create_user(c, b)

ConcInit == InitFor(ConcClients)

ConcNext ==
    \/ main
    \/ Shutdown
    \/ \E c \in ConcClients : get_db_enter(c)
    \/ \E c \in ConcClients : Handler(c)
    \/ \E c \in ConcClients : get_db_exit(c)

ConcSpec ==
    /\ ConcInit
    /\ [][ConcNext]_vars
    /\ \A c \in ConcClients : WF_vars(Handler(c)) /\ WF_vars(get_db_exit(c))

(***************************************************************************)
(* Vocabulary of the properties.                                           *)
(***************************************************************************)
\* The step in which the handler of connection c runs.
Handled(c) == pc[c] = "open" /\ pc'[c] = "done"

HasId(rows, id) == \E i \in 1 .. Len(rows) : rows[i].id = id

UsernameTaken(name) == \E i \in 1 .. Len(users) : users[i].username = name

EmailTaken(email) == \E i \in 1 .. Len(users) : users[i].email = email

\* The rows at positions skip .. skip+limit-1 (counted from 0) of `rows`.
Page(rows, skip, limit) ==
    LET n == Min(limit, Len(rows) - skip)
    IN  [i \in 1 .. (IF n < 0 THEN 0 ELSE n) |-> rows[skip + i]]

Clamp(v, lo, hi) == IF v < lo THEN lo ELSE IF v > hi THEN hi ELSE v

AtLeast(v, lo) == IF v < lo THEN lo ELSE v

IsList(request) == request.op \in {"list_products", "list_users"}

\* The table a list request pages through.
ListedTable(request) ==
    IF request.op = "list_users" THEN users ELSE products

InRange(query) ==
    /\ OrDefault(query.skip, 0) >= 0
    /\ OrDefault(query.limit, 10) >= 1
    /\ OrDefault(query.limit, 10) <= 100

(***************************************************************************)
(* C1 as stated: create_user with the email of a stored user answers with  *)
(* the HTTP conflict status, 409.                                          *)
(***************************************************************************)
C1_DuplicateEmailIs409 ==
    [][\A c \in DOMAIN pc :
        (/\ Handled(c)
         /\ req'[c].op = "create_user"
         /\ req'[c].user.username # None
         /\ req'[c].user.email # None
         /\ EmailTaken(req'[c].user.email))
        => resp'[c].status = 409]_vars

(***************************************************************************)
(* C1 as amended: create_user with the email of a stored user answers 400  *)
(* (never 201) and leaves the users table as it was.                       *)
(***************************************************************************)
C1_DuplicateEmailIs400 ==
    [][\A c \in DOMAIN pc :
        (/\ Handled(c)
         /\ req'[c].op = "create_user"
         /\ req'[c].user.username # None
         /\ req'[c].user.email # None
         /\ EmailTaken(req'[c].user.email))
        => resp'[c].status = 400 /\ users' = users]_vars

\* A request whose email alone is taken was answered 400.
C1_Witness ==
    \E c \in DOMAIN pc :
        /\ pc[c] = "done"
        /\ req[c].op = "create_user"
        /\ req[c].user.email # None
        /\ EmailTaken(req[c].user.email)
        /\ ~UsernameTaken(req[c].user.username)
        /\ resp[c].status = 400

(***************************************************************************)
(* C3: get_product, update_product and delete_product for an id no product *)
(* has, and get_user for an id no user has, answer 404 and leave both      *)
(* tables as they were.                                                    *)
(***************************************************************************)
C3_NotFoundLeavesTables ==
    [][\A c \in DOMAIN pc :
        Handled(c) =>
            /\ (/\ req'[c].op \in
                    {"get_product", "update_product", "delete_product"}
                /\ ~HasId(products, req'[c].product_id))
               => /\ resp'[c].status = 404
                  /\ products' = products
                  /\ users' = users
            /\ (/\ req'[c].op = "get_user"
                /\ ~HasId(users, req'[c].user_id))
               => /\ resp'[c].status = 404
                  /\ products' = products
                  /\ users' = users]_vars

\* An update of a product that does not exist was answered 404.
C3_Witness ==
    \E c \in DOMAIN pc :
        /\ pc[c] = "done"
        /\ req[c].op = "update_product"
        /\ ~HasId(products, req[c].product_id)
        /\ resp[c].status = 404

(***************************************************************************)
(* C6: create_user with a valid body adds a user exactly when neither its  *)
(* username nor its email is taken: then the table grows by one row with   *)
(* the requested username, email and full_name and an id no stored user    *)
(* has, and the answer is 201; otherwise the answer is the 400 rejection   *)
(* and the table is as it was.                                             *)
(***************************************************************************)
C6_CreateUserIffFree ==
    [][\A c \in DOMAIN pc :
        (/\ Handled(c)
         /\ req'[c].op = "create_user"
         /\ req'[c].user.username # None
         /\ req'[c].user.email # None)
        => IF \/ UsernameTaken(req'[c].user.username)
              \/ EmailTaken(req'[c].user.email)
           THEN resp'[c].status = 400 /\ users' = users
           ELSE /\ resp'[c].status = 201
                /\ Len(users') = Len(users) + 1
                /\ SubSeq(users', 1, Len(users)) = users
                /\ users'[Len(users')].username = req'[c].user.username
                /\ users'[Len(users')].email = req'[c].user.email
                /\ users'[Len(users')].full_name = req'[c].user.full_name
                /\ ~HasId(users, users'[Len(users')].id)]_vars

\* A user beyond the sample data was created and answered 201.
C6_Witness ==
    \E c \in DOMAIN pc :
        /\ pc[c] = "done"
        /\ req[c].op = "create_user"
        /\ resp[c].status = 201
        /\ Len(users) = Len(sample_users) + 1
        /\ users[Len(users)].username = req[c].user.username
        /\ users[Len(users)].full_name = Some("Alice Liddell")

(***************************************************************************)
(* C4 as stated: every list request is served, with skip raised to 0 and   *)
(* limit brought into 1 .. 100 when they are out of range: the answer is   *)
(* the 200 whose body is that page of the table.                           *)
(***************************************************************************)
C4_PaginationClamped ==
    [][\A c \in DOMAIN pc :
        (/\ Handled(c)
         /\ IsList(req'[c])
         /\ req'[c].op = "list_products" => req'[c].query.in_stock_only = None)
        => /\ resp'[c].status = 200
           /\ resp'[c].body =
                Page(ListedTable(req'[c]),
                     AtLeast(OrDefault(req'[c].query.skip, 0), 0),
                     Clamp(OrDefault(req'[c].query.limit, 10), 1, 100))]_vars

(***************************************************************************)
(* C4 as amended: a list request whose skip is below 0 or whose limit is   *)
(* outside 1 .. 100 is rejected with a 422 and no rows; one in range       *)
(* (defaults 0 and 10) is answered 200 with at most limit rows, and for    *)
(* list_users and for list_products without in_stock_only these are the    *)
(* rows at positions skip .. skip+limit-1 of the table.                    *)
(***************************************************************************)
C4_PaginationValidated ==
    [][\A c \in DOMAIN pc :
        (Handled(c) /\ IsList(req'[c]))
        => IF InRange(req'[c].query)
           THEN /\ resp'[c].status = 200
                /\ Len(resp'[c].body) <= OrDefault(req'[c].query.limit, 10)
                /\ Len(resp'[c].body) <= 100
                /\ (req'[c].op = "list_products" =>
                        req'[c].query.in_stock_only = None)
                   => resp'[c].body =
                        Page(ListedTable(req'[c]),
                             OrDefault(req'[c].query.skip, 0),
                             OrDefault(req'[c].query.limit, 10))
           ELSE /\ resp'[c].status = 422
                /\ "body" \notin DOMAIN resp'[c]]_vars

\* A request for more than 100 rows was rejected, not served with 100.
C4_Witness ==
    \E c \in DOMAIN pc :
        /\ pc[c] = "done"
        /\ req[c].op = "list_products"
        /\ req[c].query.limit = Some(101)
        /\ req[c].query.skip = None
        /\ resp[c].status = 422
        /\ Len(products) > 0

(***************************************************************************)
(* C7 as stated: list_products with in_stock_only=true answers with the    *)
(* page of the stored products whose in_stock is true.                     *)
(***************************************************************************)
C7_InStockOnlyListsInStock ==
    [][\A c \in DOMAIN pc :
        (/\ Handled(c)
         /\ req'[c].op = "list_products"
         /\ req'[c].query.in_stock_only = Some(TRUE)
         /\ InRange(req'[c].query))
        => /\ resp'[c].status = 200
           /\ resp'[c].body =
                Page(SelectSeq(products, LAMBDA r : r.in_stock = TRUE),
                     OrDefault(req'[c].query.skip, 0),
                     OrDefault(req'[c].query.limit, 10))]_vars

(***************************************************************************)
(* C8: update_product of a stored product sets its name, description,      *)
(* price and in_stock to the request's (description NULL and in_stock true *)
(* when the request omits them), keeps its id and created_at, and leaves   *)
(* every other product and every user as it was.                           *)
(***************************************************************************)
C8_UpdateReplacesOneRow ==
    [][\A c \in DOMAIN pc :
        (/\ Handled(c)
         /\ req'[c].op = "update_product"
         /\ HasId(products, req'[c].product_id))
        => /\ users' = users
           /\ Len(products') = Len(products)
           /\ \A i \in 1 .. Len(products) :
                IF products[i].id = req'[c].product_id
                THEN /\ products'[i].id = products[i].id
                     /\ products'[i].created_at = products[i].created_at
                     /\ products'[i].name = req'[c].product.name
                     /\ products'[i].price = req'[c].product.price
                     /\ products'[i].description = req'[c].product.description
                     /\ products'[i].in_stock =
                            (IF req'[c].product.in_stock = None THEN TRUE
                             ELSE req'[c].product.in_stock = Some(TRUE))
                ELSE products'[i] = products[i]]_vars

\* A product among others was updated by a body that omits description and
\* in_stock.
C8_Witness ==
    \E c \in DOMAIN pc :
        /\ pc[c] = "done"
        /\ req[c].op = "update_product"
        /\ resp[c].status = 200
        /\ req[c].product.in_stock = None
        /\ req[c].product.description = None
        /\ \E i \in 1 .. Len(products) :
            /\ products[i].id = req[c].product_id
            /\ products[i].name = "Widget"
            /\ products[i].in_stock = TRUE
            /\ products[i].description = None
        /\ Len(products) > 1

(***************************************************************************)
(* C2: no two stored users have the same username and no two the same      *)
(* email, and every stored user has a username and an email.               *)
(***************************************************************************)
C2_UsersUniqueNotNull ==
    /\ \A i \in 1 .. Len(users) :
        users[i].username # None /\ users[i].email # None
    /\ \A i, j \in 1 .. Len(users) :
        i # j => /\ users[i].username # users[j].username
                 /\ users[i].email # users[j].email

\* A user was created through the API and a later start tried to insert the
\* sample users again.
C2_Witness ==
    /\ Len(users) = Len(sample_users) + 1
    /\ seeding = "IntegrityError"

(***************************************************************************)
(* C9: delete_product of a stored product removes that row and no other,   *)
(* and leaves the users as they were; an id that no product has stays      *)
(* without a product until a create_product (the one exception is the      *)
(* first start on the empty database, before which nothing can have been   *)
(* deleted).                                                               *)
(***************************************************************************)
C9_DeleteRemovesOneRow ==
    [][/\ \A c \in DOMAIN pc :
            (/\ Handled(c)
             /\ req'[c].op = "delete_product"
             /\ HasId(products, req'[c].product_id))
            => /\ users' = users
               /\ ~HasId(products', req'[c].product_id)
               /\ Len(products') = Len(products) - 1
               /\ \A i \in 1 .. Len(products) :
                    products[i].id # req'[c].product_id
                    => \E j \in 1 .. Len(products') :
                            products'[j] = products[i]
       /\ \A id \in 1 .. MaxProductId :
            (~HasId(products, id) /\ HasId(products', id))
            => \/ \E c \in DOMAIN pc :
                    Handled(c) /\ req'[c].op = "create_product"
               \/ seeding = "not run"]_vars

\* A product in the middle of the table was deleted and the others are there.
C9_Witness ==
    \E c \in DOMAIN pc :
        /\ pc[c] = "done"
        /\ req[c].op = "delete_product"
        /\ resp[c].status = 200
        /\ req[c].product_id = 3
        /\ ~HasId(products, 3)
        /\ HasId(products, 2)
        /\ HasId(products, 4)

(***************************************************************************)
(* C10 as stated: the sample-data block of a start never fails on the      *)
(* uniqueness constraints of the users table.                              *)
(***************************************************************************)
C10_SeedingNeverFails == seeding # "IntegrityError"

(***************************************************************************)
(* C5: every request in flight holds one open session, no session is held  *)
(* by two requests, the open sessions are exactly those of the requests in *)
(* flight (none once all have finished), and every request in flight       *)
(* eventually finishes with its session closed, whatever its response.     *)
(***************************************************************************)
C5_SessionInv ==
    /\ \A c \in DOMAIN pc : pc[c] = "idle" => db[c] = 0
    /\ \A c \in DOMAIN pc : pc[c] # "idle" => db[c] \in sessions
    /\ \A c1, c2 \in DOMAIN pc :
        (c1 # c2 /\ pc[c1] # "idle" /\ pc[c2] # "idle") => db[c1] # db[c2]
    /\ sessions = {db[c] : c \in {x \in DOMAIN pc : pc[x] # "idle"}}

C5_SessionPerRequest ==
    /\ []C5_SessionInv
    /\ \A c \in ConcClients :
        (pc[c] # "idle") ~> (pc[c] = "idle" /\ db[c] = 0)

\* Two requests in flight, one of them answered with an HTTPException.
C5_Witness ==
    \E c1, c2 \in DOMAIN pc :
        /\ c1 # c2
        /\ pc[c1] = "done"
        /\ resp[c1].status = 404
        /\ pc[c2] = "open"
        /\ db[c1] # db[c2]
        /\ sessions = {db[c1], db[c2]}

=============================================================================
